---- MODULE Spec2Model ----
(***************************************************************************)
(* BookRecommendation.py: title resolution (get_possible_books,            *)
(* correct_name, name_to_bookId), the similarity ranking (similar_summary, *)
(* similar_genre) and the entry point recommend_books.                     *)
(*                                                                         *)
(* Strings are sequences of characters over a small alphabet that holds a  *)
(* lower-case letter, its upper-case form, a second letter, the regular    *)
(* expression wildcard "." and an opening parenthesis, which has no        *)
(* closing partner in the alphabet.                                        *)
(***************************************************************************)
EXTENDS Integers, Sequences, FiniteSets

VARIABLES
    data,          \* the catalog: rows of [bookId, title], in file order
    tfidf_matrix,  \* one term-weight vector per catalog row
    pc,            \* where the request stands
    args,          \* the arguments of the call under way
    stack,         \* the activations of name_to_bookId, outermost first
    ret,           \* what the last finished activation of name_to_bookId returned
    out,           \* the lines printed so far
    prompts,       \* how many times input() was called
    caught,        \* the failures caught by name_to_bookId's except clause
    books,         \* the collection built by recommend_books
    raised         \* the exception that left recommend_books, or "none"

vars == <<data, tfidf_matrix, pc, args, stack, ret, out, prompts, caught, books, raised>>

(***************************************************************************)
(* Bounds of the model.                                                    *)
(***************************************************************************)
MaxTitleLen == 2   \* longest title
MaxQueryLen == 2   \* longest query and longest reply at the prompt
MaxTitles == 2     \* most catalog rows when the titles are drawn freely
MaxRows == 5       \* most catalog rows when the description vectors are drawn freely
MaxK == 2          \* largest requested count k
MaxDepth == 2      \* most nested activations of name_to_bookId
MaxPrompts == 2    \* most calls of input() in one request

Alphabet == {"a", "A", "b", ".", "("}

Terms == {"t1", "t2"}

StringsUpTo(n) == UNION {[1..m -> Alphabet] : m \in 1..n}

Strings == StringsUpTo(MaxTitleLen)

\* What a user types: a query passed by the caller, a line read by input().
Typed == StringsUpTo(MaxQueryLen)

\* Python values a caller may pass as book_name: a string, None, or a
\* truthy object that is not a string.
Str(s) == [tag |-> "str", val |-> s]

NoneValue == [tag |-> "None", val |-> <<>>]

NonString == [tag |-> "int", val |-> <<>>]

\* The identifier column (the DataFrame index), by row position.
IdPool == <<"id-c", "id-a", "id-e", "id-b", "id-f", "id-d", "id-h", "id-g">>

None == "None"

\* bool(book_name): None and the empty string are falsy.
Truthy(v) == v.tag = "int" \/ (v.tag = "str" /\ Len(v.val) > 0)

\* str.lower()
Lower(c) == IF c = "A" THEN "a" ELSE c

LowerStr(s) == [i \in 1..Len(s) |-> Lower(s[i])]

\* Python's `s in t` on strings.
Contains(s, t) ==
    \E off \in 0..(Len(t) - Len(s)) : \A i \in 1..Len(s) : t[off + i] = s[i]

Rows == 1..Len(data)

\* data['title'], data.index
Title(r) == data[r].title

BookId(r) == data[r].bookId

Index == {BookId(r) : r \in Rows}

\* The rows of a boolean mask, in catalog order.
SelectRows(mask) ==
    LET F[n \in 0..Len(data)] ==
            IF n = 0 THEN <<>>
            ELSE IF n \in mask THEN Append(F[n - 1], n) ELSE F[n - 1]
    IN F[Len(data)]

\* get_possible_books: the titles, in catalog order, that contain the
\* query once both are lower-cased.
get_possible_books(book) ==
    LET b == LowerStr(book)
        rs == SelectRows({r \in Rows : Contains(b, LowerStr(Title(r)))})
    IN [i \in 1..Len(rs) |-> Title(rs[i])]

Printed(kind, text) == [msg |-> kind, text |-> text]

\* correct_name with the test of line 84 inverted: no candidate is taken
\* for several.
correct_name_inverted(book_name) ==
    IF \E r \in Rows : LowerStr(Title(r)) = book_name
    THEN [res |-> "None", title |-> <<>>, out |-> <<>>]
    ELSE LET possible_books == get_possible_books(book_name)
         IN IF Len(possible_books) = 1
            THEN [res |-> "title", title |-> possible_books[1], out |-> <<>>]
            ELSE IF Len(possible_books) # 0
            THEN [res |-> "0", title |-> <<>>,
                  out |-> <<Printed("Book not found!", <<>>)>>]
            ELSE [res |-> "1", title |-> <<>>,
                  out |-> <<Printed("Book not found!", <<>>),
                            Printed("Did you mean: ", <<>>)>>]

\* correct_name: the value returned ("None", "title", 0 or 1 as a tag)
\* and the lines printed.
correct_name(book_name) ==
    IF \E r \in Rows : LowerStr(Title(r)) = book_name
    THEN [res |-> "None", title |-> <<>>, out |-> <<>>]
    ELSE LET possible_books == get_possible_books(book_name)
         IN IF Len(possible_books) = 1
            THEN [res |-> "title", title |-> possible_books[1], out |-> <<>>]
            ELSE IF Len(possible_books) = 0
            THEN [res |-> "0", title |-> <<>>,
                  out |-> <<Printed("Book not found!", <<>>)>>]
            ELSE [res |-> "1", title |-> <<>>,
                  out |-> <<Printed("Book not found!", <<>>),
                            Printed("Did you mean: ", <<>>)>>
                          \o [i \in 1..Len(possible_books) |->
                                Printed("candidate", possible_books[i])]]

\* re.compile(pat): an opening parenthesis with no closing one is an error.
RegexCompiles(pat) == \A i \in 1..Len(pat) : pat[i] # "("

\* re.search(pat, title, re.IGNORECASE): "." matches any character, a
\* letter matches itself in either case.
RegexSearch(pat, t) ==
    \E off \in 0..(Len(t) - Len(pat)) :
        \A i \in 1..Len(pat) :
            pat[i] = "." \/ Lower(pat[i]) = Lower(t[off + i])

\* data[data['title'].str.contains(book_name, case=False)].index[0]
\* the identifier found, or the exception raised
Lookup(book_name) ==
    IF ~RegexCompiles(book_name) THEN [exc |-> "re.error", bookId |-> None]
    ELSE LET rs == SelectRows({r \in Rows : RegexSearch(book_name, Title(r))})
         IN IF Len(rs) = 0 THEN [exc |-> "IndexError", bookId |-> None]
            ELSE [exc |-> "none", bookId |-> BookId(rs[1])]

(***************************************************************************)
(* The ranking.  A row of tfidf_matrix is a vector of non-negative term    *)
(* weights.  A cosine is kept as the fraction num/den of its square, which *)
(* orders non-negative cosines as the cosines themselves are ordered.      *)
(***************************************************************************)
Dot(u, v) == u["t1"] * v["t1"] + u["t2"] * v["t2"]

\* cosine_similarity(tfidf_matrix[loc], tfidf_matrix)[0][r - 1]: a row of
\* zeros is left as it is by the normalisation and scores 0.
cosine_similarity(loc, r) ==
    LET u == tfidf_matrix[loc]
        v == tfidf_matrix[r]
    IN IF Dot(u, u) = 0 \/ Dot(v, v) = 0
       THEN [num |-> 0, den |-> 1]
       ELSE [num |-> Dot(u, v) * Dot(u, v), den |-> Dot(u, u) * Dot(v, v)]

Less(x, y) == x.num * y.den < y.num * x.den

\* A sort that is not stable: a row goes in front of the rows of equal score.
InsertDescendingUnstable(sorted, r, loc) ==
    LET behind == {i \in 1..Len(sorted) :
                     ~Less(cosine_similarity(loc, r), cosine_similarity(loc, sorted[i]))}
        at == IF behind = {} THEN Len(sorted) + 1
              ELSE CHOOSE i \in behind : \A j \in behind : i <= j
    IN SubSeq(sorted, 1, at - 1) \o <<r>> \o SubSeq(sorted, at, Len(sorted))

\* sorted(similar_books, key=lambda x: x[1], reverse=True): a stable sort,
\* so rows of equal score keep their catalog order.
InsertDescending(sorted, r, loc) ==
    LET behind == {i \in 1..Len(sorted) :
                     Less(cosine_similarity(loc, sorted[i]), cosine_similarity(loc, r))}
        at == IF behind = {} THEN Len(sorted) + 1
              ELSE CHOOSE i \in behind : \A j \in behind : i <= j
    IN SubSeq(sorted, 1, at - 1) \o <<r>> \o SubSeq(sorted, at, Len(sorted))

sorted_similar_books(loc) ==
    LET F[n \in 0..Len(data)] ==
            IF n = 0 THEN <<>> ELSE InsertDescending(F[n - 1], n, loc)
    IN F[Len(data)]

\* data.index.get_loc(bookId)
get_loc(bookId) == CHOOSE r \in Rows : BookId(r) = bookId

\* The loop shared by similar_summary and similar_genre: the identifiers at
\* the 0-based positions lo .. hi-1 of the ranking, or the exception raised.
RankedSlice(bookId, lo, hi) ==
    IF bookId \notin Index THEN [exc |-> "KeyError", list |-> <<>>]
    ELSE LET ranking == sorted_similar_books(get_loc(bookId))
         IN IF hi > lo /\ hi > Len(ranking)
            THEN [exc |-> "IndexError", list |-> <<>>]
            ELSE [exc |-> "none",
                  list |-> [i \in 1..(hi - lo) |-> BookId(ranking[lo + i])]]

\* for i in range(1, k+1)
similar_summary(bookId, k) == RankedSlice(bookId, 1, k + 1)

\* The loop of similar_genre stopping one position early.
similar_genre_short(bookId, k) == RankedSlice(bookId, k + 1, 2 * k)

\* for i in range(k+1, 2*k+1)
similar_genre(bookId, k) == RankedSlice(bookId, k + 1, 2 * k + 1)

(***************************************************************************)
(* name_to_bookId.  An activation is a frame [book_name, st]: st = "start" *)
(* before the body has run past the prompt loop, "await" while the nested  *)
(* call of line 126 is under way.                                          *)
(***************************************************************************)
Top == stack[Len(stack)]

Pop == SubSeq(stack, 1, Len(stack) - 1)

InvalidInput == Printed("Invalid input.", <<>>)

\* The activation on top returns v, having printed lines.
Return(v, lines) ==
    /\ stack' = Pop
    /\ ret' = v
    /\ out' = out \o lines
    /\ pc' = IF Len(stack) = 1 THEN "resolved" ELSE "name_to_bookId"

\* The except clause: any failure is printed as "Invalid input." and the
\* activation falls off its end, returning None.
Except(exc, lines) ==
    /\ caught' = Append(caught, exc)
    /\ Return(None, lines \o <<InvalidInput>>)

\* Lines 128-129, with the except clause around them.
LookupAndReturn(book_name, lines) ==
    LET found == Lookup(book_name)
    IN IF found.exc = "none"
       THEN Return(found.bookId, lines) /\ UNCHANGED caught
       ELSE Except(found.exc, lines)

NoBooks == [kind |-> "none", list |-> <<>>, set |-> {}]

NoArgs == [entry |-> "none", book_name |-> NoneValue, bookId |-> None, type |-> "None", k |-> 0]

Queries == {Str(s) : s \in Typed} \cup {Str(<<>>), NoneValue, NonString}

\* A caller calls name_to_bookId(book_name) directly.
CallNameToBookId ==
    \E q \in Queries :
        /\ pc = "idle"
        /\ args' = [NoArgs EXCEPT !.entry = "name_to_bookId", !.book_name = q]
        /\ stack' = <<[book_name |-> q, st |-> "start"]>>
        /\ pc' = "name_to_bookId"
        /\ UNCHANGED <<data, tfidf_matrix, ret, out, prompts, caught, books, raised>>

\* Lines 116-117: book_name is falsy and input("Book: ") returns a line.
Input ==
    \E reply \in Typed \cup {<<>>} :
        /\ pc = "name_to_bookId"
        /\ Top.st = "start"
        /\ ~Truthy(Top.book_name)
        /\ prompts < MaxPrompts
        /\ prompts' = prompts + 1
        /\ stack' = [stack EXCEPT ![Len(stack)].book_name = Str(reply)]
        /\ UNCHANGED <<data, tfidf_matrix, pc, args, ret, out, caught, books, raised>>

\* Lines 116-117 and 130-131: input() fails (end of input).
InputFails ==
    /\ pc = "name_to_bookId"
    /\ Top.st = "start"
    /\ ~Truthy(Top.book_name)
    /\ prompts < MaxPrompts
    /\ prompts' = prompts + 1
    /\ Except("EOFError", <<>>)
    /\ UNCHANGED <<data, tfidf_matrix, args, books, raised>>

\* Lines 119-131 for a truthy book_name, up to the nested call or the return.
Resolve ==
    /\ pc = "name_to_bookId"
    /\ Top.st = "start"
    /\ Truthy(Top.book_name)
    /\ IF Top.book_name.tag # "str"
       THEN \* line 119: the object has no lower()
            /\ Except("AttributeError", <<>>)
       ELSE LET book_name == LowerStr(Top.book_name.val)
                echo == <<Printed("echo", book_name)>>
                c1 == correct_name(book_name)
                c2 == correct_name(book_name)
            IN IF c1.res = "0"
               THEN Return(None, echo \o c1.out) /\ UNCHANGED caught
               ELSE IF c2.res = "1"
               THEN \* line 126: name_to_bookId() with no argument
                    /\ Len(stack) < MaxDepth
                    /\ stack' = [stack EXCEPT ![Len(stack)] =
                                     [book_name |-> Str(book_name), st |-> "await"]]
                                 \o <<[book_name |-> NoneValue, st |-> "start"]>>
                    /\ out' = out \o echo \o c1.out \o c2.out
                    /\ UNCHANGED <<pc, ret, caught>>
               ELSE LookupAndReturn(book_name, echo \o c1.out \o c2.out)
    /\ UNCHANGED <<data, tfidf_matrix, args, prompts, books, raised>>

\* Lines 126-131 once the nested call has returned: its result is dropped
\* and the lookup runs on this activation's own book_name.
AfterNested ==
    /\ pc = "name_to_bookId"
    /\ Top.st = "await"
    /\ LookupAndReturn(Top.book_name.val, <<>>)
    /\ UNCHANGED <<data, tfidf_matrix, args, prompts, books, raised>>

\* The catalogs whose titles are drawn freely; the description vectors are
\* not read by name_to_bookId.
TitleCatalogs ==
    UNION {[1..n -> Strings] : n \in 1..MaxTitles}

Idle ==
    /\ pc = "idle"
    /\ args = NoArgs
    /\ stack = <<>>
    /\ ret = None
    /\ out = <<>>
    /\ prompts = 0
    /\ caught = <<>>
    /\ books = NoBooks
    /\ raised = "none"

InitResolve ==
    /\ \E titles \in TitleCatalogs :
          data = [r \in 1..Len(titles) |-> [bookId |-> IdPool[r], title |-> titles[r]]]
    /\ tfidf_matrix = [r \in 1..Len(data) |-> [t \in Terms |-> 1]]
    /\ Idle

NextResolve ==
    \/ CallNameToBookId
    \/ Input
    \/ InputFails
    \/ Resolve
    \/ AfterNested

SpecResolve == InitResolve /\ [][NextResolve]_vars

(***************************************************************************)
(* similar_summary and similar_genre called on their own.                  *)
(***************************************************************************)
Range(list) == {list[i] : i \in 1..Len(list)}

AsList(list) == [kind |-> "list", list |-> list, set |-> {}]

\* set(list)
AsSet(list) == [kind |-> "set", list |-> <<>>, set |-> Range(list)]

Finish(result) ==
    /\ pc' = "done"
    /\ raised' = result.exc
    /\ books' = IF result.exc = "none" THEN AsList(result.list) ELSE NoBooks

CallSimilarSummary ==
    \E b \in Index \cup {None}, k \in 1..MaxK :
        /\ pc = "idle"
        /\ args' = [NoArgs EXCEPT !.entry = "similar_summary", !.bookId = b, !.k = k]
        /\ Finish(similar_summary(b, k))
        /\ UNCHANGED <<data, tfidf_matrix, stack, ret, out, prompts, caught>>

CallSimilarGenre ==
    \E b \in Index \cup {None}, k \in 1..MaxK :
        /\ pc = "idle"
        /\ args' = [NoArgs EXCEPT !.entry = "similar_genre", !.bookId = b, !.k = k]
        /\ Finish(similar_genre(b, k))
        /\ UNCHANGED <<data, tfidf_matrix, stack, ret, out, prompts, caught>>

\* The title column when the description vectors are the input drawn.
TitlePool == <<<<"a", "b">>, <<"a">>, <<"b", ".">>, <<"A", "b">>,
               <<"b", "b">>, <<"a", ".">>, <<"b">>, <<".", "a">>>>

Weights == {0, 1}

\* fit_transform rejects a corpus with an empty vocabulary, so some row
\* holds a term; a description of stop words alone gives a row of zeros.
Matrices ==
    {m \in UNION {[1..n -> [Terms -> Weights]] : n \in 1..MaxRows} :
        \E r \in 1..Len(m), t \in Terms : m[r][t] > 0}

InitRank ==
    /\ tfidf_matrix \in Matrices
    /\ data = [r \in 1..Len(tfidf_matrix) |-> [bookId |-> IdPool[r], title |-> TitlePool[r]]]
    /\ Idle

NextRank ==
    \/ CallSimilarSummary
    \/ CallSimilarGenre

SpecRank == InitRank /\ [][NextRank]_vars

(***************************************************************************)
(* recommend_books and print_book_details.                                 *)
(***************************************************************************)
Types == {"summary", "genres", "None", "other"}

\* Line 229: recommend_books(book_name, type, k) calls name_to_bookId.
CallRecommendBooks ==
    \E q \in Queries, type \in Types, k \in 1..MaxK :
        /\ pc = "idle"
        /\ args' = [NoArgs EXCEPT !.entry = "recommend_books", !.book_name = q,
                                  !.type = type, !.k = k]
        /\ stack' = <<[book_name |-> q, st |-> "start"]>>
        /\ pc' = "name_to_bookId"
        /\ UNCHANGED <<data, tfidf_matrix, ret, out, prompts, caught, books, raised>>

\* recommend_books with the combined mode built from the summary list alone.
RecommendedSummaryOnly(bookId, type, k) ==
    LET summary == similar_summary(bookId, k)
        genres == similar_genre(bookId, k)
    IN IF type = "summary"
       THEN [exc |-> summary.exc, books |-> AsList(summary.list)]
       ELSE IF type = "genres"
       THEN [exc |-> genres.exc, books |-> AsList(genres.list)]
       ELSE IF type = "None"
       THEN IF summary.exc # "none" THEN [exc |-> summary.exc, books |-> NoBooks]
            ELSE IF genres.exc # "none" THEN [exc |-> genres.exc, books |-> NoBooks]
            ELSE [exc |-> "none", books |-> AsSet(summary.list)]
       ELSE [exc |-> "UnboundLocalError", books |-> NoBooks]

\* Lines 231-236 on the value name_to_bookId returned.
Recommended(bookId, type, k) ==
    LET summary == similar_summary(bookId, k)
        genres == similar_genre(bookId, k)
    IN IF type = "summary"
       THEN [exc |-> summary.exc, books |-> AsList(summary.list)]
       ELSE IF type = "genres"
       THEN [exc |-> genres.exc, books |-> AsList(genres.list)]
       ELSE IF type = "None"
       THEN IF summary.exc # "none" THEN [exc |-> summary.exc, books |-> NoBooks]
            ELSE IF genres.exc # "none" THEN [exc |-> genres.exc, books |-> NoBooks]
            ELSE [exc |-> "none", books |-> AsSet(summary.list \o genres.list)]
       ELSE \* no branch binds books: line 238 reads an unbound local
            [exc |-> "UnboundLocalError", books |-> NoBooks]

RecommendBooks ==
    /\ pc = "resolved"
    /\ args.entry = "recommend_books"
    /\ LET r == Recommended(ret, args.type, args.k)
       IN IF r.exc = "none"
          THEN /\ books' = r.books
               /\ pc' = "print_book_details"
               /\ UNCHANGED raised
          ELSE /\ raised' = r.exc
               /\ pc' = "done"
               /\ UNCHANGED books
    /\ UNCHANGED <<data, tfidf_matrix, args, stack, ret, out, prompts, caught>>

\* print_book_details shows every book handed to it.
PrintBookDetails ==
    /\ pc = "print_book_details"
    /\ pc' = "done"
    /\ UNCHANGED <<data, tfidf_matrix, args, stack, ret, out, prompts, caught,
                   books, raised>>

\* Lines 153-154: fetching or decoding a cover fails; nothing handles it.
PrintBookDetailsFails ==
    /\ pc = "print_book_details"
    /\ books.list # <<>> \/ books.set # {}
    /\ pc' = "done"
    /\ raised' = "DisplayError"
    /\ UNCHANGED <<data, tfidf_matrix, args, stack, ret, out, prompts, caught, books>>

\* End to end, the descriptions drawn all share the first term.
SharedTermMatrices ==
    UNION {[1..n -> {v \in [Terms -> Weights] : v["t1"] = 1}] : n \in 1..MaxRows}

Init ==
    /\ tfidf_matrix \in SharedTermMatrices
    /\ data = [r \in 1..Len(tfidf_matrix) |-> [bookId |-> IdPool[r], title |-> TitlePool[r]]]
    /\ Idle

Next ==
    \/ CallRecommendBooks
    \/ Input
    \/ InputFails
    \/ Resolve
    \/ AfterNested
    \/ RecommendBooks
    \/ PrintBookDetails
    \/ PrintBookDetailsFails

Spec == Init /\ [][Next]_vars

(***************************************************************************)
(* Properties of the ranking, under SpecRank.                              *)
(***************************************************************************)
Similar == {"similar_summary", "similar_genre"}

Returned == pc = "done" /\ args.entry \in Similar /\ raised = "none"

\* A call on an identifier of a catalog of at least 2k+1 records.
LargeEnough ==
    /\ pc = "done"
    /\ args.entry \in Similar
    /\ args.bookId \in Index
    /\ Len(data) >= 2 * args.k + 1

Score(loc, r) == cosine_similarity(loc, r)

Tie(x, y) == ~Less(x, y) /\ ~Less(y, x)

\* Row r stands before row s when the rows are put in descending
\* similarity to row loc, ties in catalog order.
Ahead(loc, r, s) ==
    \/ Less(Score(loc, s), Score(loc, r))
    \/ Tie(Score(loc, r), Score(loc, s)) /\ r < s

\* The row with exactly n rows ahead of it.
RowRanked(loc, n) ==
    CHOOSE s \in Rows : Cardinality({r \in Rows : Ahead(loc, r, s)}) = n

\* C1: whenever similar_summary(b, k) or similar_genre(b, k) returns, the
\* first record of the ranking is b itself and b is not in the list returned.
C1_QueryNeverReturned ==
    Returned =>
        /\ sorted_similar_books(get_loc(args.bookId))[1] = get_loc(args.bookId)
        /\ args.bookId \notin Range(books.list)

\* C2: on a catalog of at least 2k+1 records and an identifier of it, each
\* of similar_summary and similar_genre returns a list of exactly k
\* identifiers.
C2_ExactlyK ==
    LargeEnough =>
        /\ raised = "none"
        /\ books.kind = "list"
        /\ Len(books.list) = args.k

C2_Witness ==
    /\ LargeEnough
    /\ args.entry = "similar_genre"
    /\ args.k = 2
    /\ Len(books.list) = 2

Passed == args.book_name.tag = "str" /\ Len(args.book_name.val) > 0

Asked == LowerStr(args.book_name.val)

\* The rows whose title equals the query, ignoring case.
ExactRows == {r \in Rows : LowerStr(Title(r)) = Asked}

\* The rows whose title holds the query as a substring, ignoring case.
SubstringRows == {r \in Rows : Contains(Asked, LowerStr(Title(r)))}

Resolved == pc = "resolved" /\ Passed

\* C4: a query that equals a title, ignoring case, resolves without a
\* prompt to the identifier of a record whose title equals the query
\* ignoring case, also when the query is a substring of earlier titles.
C4_ExactMatchResolves ==
    (Resolved /\ ExactRows # {}) =>
        /\ ret \in {BookId(r) : r \in ExactRows}
        /\ prompts = 0

\* C5: a query that is no title but a substring, ignoring case, of exactly
\* one title resolves without a prompt to the identifier of that record.
C5_SingleCandidateResolves ==
    (Resolved /\ ExactRows = {} /\ Cardinality(SubstringRows) = 1) =>
        /\ ret \in {BookId(r) : r \in SubstringRows}
        /\ prompts = 0

\* C6: a non-empty query that is a substring of no title is reported as not
\* found, returns None and never prompts.
C6_NotFound ==
    (Passed /\ SubstringRows = {}) =>
        /\ prompts = 0
        /\ Len(stack) <= 1
        /\ pc = "resolved" =>
              /\ ret = None
              /\ out = <<Printed("echo", Asked), Printed("Book not found!", <<>>)>>
              /\ caught = <<>>

C6_Witness ==
    /\ Resolved
    /\ SubstringRows = {}
    /\ Len(data) = 2
    /\ Len(Asked) = 2
    /\ ret = None

\* C7: a query that is no title but a substring of two or more titles has
\* all its candidates printed and is never resolved to the identifier of
\* one of them, whatever is typed at the prompt.
C7_AmbiguousNotSelected ==
    (Resolved /\ ExactRows = {} /\ Cardinality(SubstringRows) >= 2) =>
        /\ \A r \in SubstringRows : Printed("candidate", Title(r)) \in Range(out)
        /\ ret \notin {BookId(r) : r \in SubstringRows}

\* C10: whatever is passed and typed, once a failure was raised during the
\* resolution the call prints "Invalid input." and returns None.
C10_FailureReturnsNone ==
    (pc = "resolved" /\ caught # <<>>) =>
        /\ InvalidInput \in Range(out)
        /\ ret = None

(***************************************************************************)
(* Properties of recommend_books, under Spec.                              *)
(***************************************************************************)
\* C3: with the mode unset, the collection handed to print_book_details is
\* a set, the union of the two lists, of at most 2k identifiers.
C3_CombinedIsUnion ==
    (pc = "print_book_details" /\ args.type = "None") =>
        /\ books.kind = "set"
        /\ books.set = Range(similar_summary(ret, args.k).list)
                          \cup Range(similar_genre(ret, args.k).list)
        /\ Cardinality(books.set) <= 2 * args.k

C3_Witness ==
    /\ pc = "print_book_details"
    /\ args.type = "None"
    /\ args.k = 2
    /\ Cardinality(books.set) = 4

\* C8: when name_to_bookId returns None, recommend_books ends with no
\* exception, has built no collection and presents no book.
C8_AbortsSilently ==
    (args.entry = "recommend_books" /\ pc \in {"print_book_details", "done"} /\ ret = None) =>
        /\ raised = "none"
        /\ books = NoBooks

====
